---- MODULE Spec2Model ----
(***************************************************************************)
(* A model of the CO2LayersEscape programs:                                *)
(*   - layers.js           the exponential layer builder                   *)
(*   - unnamed/part_001    the satellite-observation notebook (layer       *)
(*                         properties, radiative transfer loop, photon     *)
(*                         flux)                                           *)
(*   - unnamed/part_000    the mean-free-path script and notebook cell     *)
(*   - timeToEscape.js     the random-walk escape time                     *)
(* and of two runs of a program on the same inputs, and of the parallel    *)
(* reformulation of the transfer loop.                                     *)
(*                                                                         *)
(* Numbers.  The programs compute in IEEE binary doubles (53 significant   *)
(* bits).  The model computes in decimal floating point with Digits        *)
(* significant digits: a number is a record [m, e] that stands for         *)
(* m * 10^e, with 10^(Digits-1) <= |m| < 10^Digits or m = 0, and every     *)
(* operation rounds its exact result to the nearest such number (halves to *)
(* even), as the IEEE operations do.  Results below 10^EMin flush to 0.    *)
(* Infinities and NaN are not represented: the inputs the model draws keep *)
(* every divisor non-zero.                                                 *)
(***************************************************************************)
EXTENDS Integers, Sequences, FiniteSets, TLC

\* Significant decimal digits of a floating-point number of the model.
Digits == 3

\* Number of terms of the exponential series after the leading 1.
ExpTerms == 8

\* Cap on the number of layers the build loop may append in the model; the
\* loop of layers.js has no cap of its own.
MaxLayers == 260

\* Smallest exponent of a non-zero number: smaller results underflow to 0.
EMin == 0 - 320

(***************************************************************************)
(* Floating-point arithmetic                                               *)
(***************************************************************************)

Abs(a) == IF a < 0 THEN -a ELSE a

Sign(a) == IF a < 0 THEN -1 ELSE 1

RECURSIVE Pow10(_)
Pow10(k) == IF k <= 0 THEN 1 ELSE 10 * Pow10(k - 1)

MantMin == Pow10(Digits - 1)

MantLim == Pow10(Digits)

\* n / d for naturals n and d > 0, rounded to the nearest integer, halves to even.
RoundHalfEven(n, d) ==
    LET q == n \div d
        r == n % d
    IN IF 2 * r > d \/ (2 * r = d /\ q % 2 = 1) THEN q + 1 ELSE q

RECURSIVE Excess(_)
\* How many decimal digits the natural n has beyond Digits.
Excess(n) == IF n < MantLim THEN 0 ELSE 1 + Excess(n \div 10)

Zero == [m |-> 0, e |-> 0]

Pack(m, e) == IF e < EMin THEN Zero ELSE [m |-> m, e |-> e]

RECURSIVE Normalize(_, _)
\* The floating-point number nearest to m * 10^e.
Normalize(m, e) ==
    IF m = 0 THEN Zero
    ELSE IF Abs(m) < MantMin THEN Normalize(m * 10, e - 1)
    ELSE LET k == Excess(Abs(m))
             q == RoundHalfEven(Abs(m), Pow10(k))
         IN IF q = MantLim THEN Pack(Sign(m) * MantMin, e + k + 1)
            ELSE Pack(Sign(m) * q, e + k)

\* The number literal m * 10^e of the source.
F(m, e) == Normalize(m, e)

FOne == F(1, 0)

FNeg(a) == [m |-> -(a.m), e |-> a.e]

\* a + b.  An addend below a hundredth of the other's last place is absorbed.
FAdd(a, b) ==
    IF a.m = 0 THEN b
    ELSE IF b.m = 0 THEN a
    ELSE LET hi == IF a.e >= b.e THEN a ELSE b
             lo == IF a.e >= b.e THEN b ELSE a
             d == hi.e - lo.e
         IN IF d > Digits + 1 THEN hi
            ELSE Normalize(hi.m * Pow10(d) + lo.m, lo.e)

FSub(a, b) == FAdd(a, FNeg(b))

FMul(a, b) == Normalize(a.m * b.m, a.e + b.e)

\* a / b, b # 0: the quotient of the mantissas is scaled to Digits digits
\* before it is rounded, so the result is rounded once.
FDiv(a, b) ==
    IF a.m = 0 THEN Zero
    ELSE LET k == IF Abs(a.m) >= Abs(b.m) THEN Digits - 1 ELSE Digits
             q == RoundHalfEven(Abs(a.m) * Pow10(k), Abs(b.m))
         IN Normalize(Sign(a.m) * Sign(b.m) * q, a.e - b.e - k)

FLt(a, b) == FSub(a, b).m < 0

FLe(a, b) == FSub(a, b).m <= 0

FGt(a, b) == FLt(b, a)

FGe(a, b) == FLe(b, a)

RECURSIVE ExpSeries(_, _, _, _)
\* 1 + x + x^2/2! + ... : acc holds the terms below k, term is x^(k-1)/(k-1)!.
ExpSeries(x, k, term, acc) ==
    IF k > ExpTerms THEN acc
    ELSE LET t == FDiv(FMul(term, x), F(k, 0))
         IN ExpSeries(x, k + 1, t, FAdd(acc, t))

RECURSIVE FExp(_)
\* Math.exp / np.exp: the series on [0, 1], exp(x) = exp(x/2)^2 above 1,
\* exp(x) = 1 / exp(-x) below 0, and 0 (underflow) below -750.
FExp(x) ==
    IF x.m < 0
    THEN IF FGt(FNeg(x), F(750, 0)) THEN Zero ELSE FDiv(FOne, FExp(FNeg(x)))
    ELSE IF FGt(x, FOne) THEN LET half == FExp(FMul(x, F(5, -1))) IN FMul(half, half)
    ELSE ExpSeries(x, 1, FOne, FOne)

RECURSIVE SqrtSearch(_, _, _)
\* The largest r in lo..hi with r * r <= n (lo * lo <= n).
SqrtSearch(n, lo, hi) ==
    IF lo >= hi THEN lo
    ELSE LET mid == (lo + hi + 1) \div 2
         IN IF mid * mid <= n THEN SqrtSearch(n, mid, hi)
            ELSE SqrtSearch(n, lo, mid - 1)

\* Math.sqrt / np.sqrt of a >= 0: the mantissa is scaled to 2*Digits or
\* 2*Digits - 1 digits with an even exponent, and its root is rounded.
FSqrt(a) ==
    IF a.m = 0 THEN Zero
    ELSE LET odd == (a.e - Digits + 1) % 2 # 0
             k == IF odd THEN Digits ELSE Digits - 1
             n == a.m * Pow10(k)
             r == SqrtSearch(n, 0, MantLim)
             q == IF n - r * r > r THEN r + 1 ELSE r
         IN Normalize(q, (a.e - k) \div 2)

RECURSIVE FSum(_)
\* The running sum of a sequence, added left to right.
FSum(s) == IF s = <<>> THEN Zero ELSE FAdd(FSum(SubSeq(s, 1, Len(s) - 1)), s[Len(s)])

Last(s) == s[Len(s)]

VARIABLES
    \* layers.js
    initialThickness, H, maxAltitude,
    layerStartPoints, layerThicknesses, accumulatedHeight, pcLayers,
    \* unnamed/part_001 (the satellite-observation notebook)
    profile, layers, layers_sorted, i, tau_nu, I_nu, layer_contributions,
    photon_flux, pcNotebook,
    \* unnamed/part_000 (the mean-free-path script)
    n0, ppm_CO2, sigma, n_CO2, meanFreePath, output, pcMfp,
    \* timeToEscape.js; its constant meanFreePath is escapeMeanFreePath here
    escapeMeanFreePath, distanceToEscape, reEmissionTime, numberOfSteps,
    totalTime, escapeOutput, pcEscape,
    \* the parallel reformulation of the transfer loop
    deltaTaus, opticalDepths, emissions, radiance, pcParallel,
    \* the results of an earlier run of the same program on the same inputs
    previousRun

varsLayers == <<initialThickness, H, maxAltitude,
                layerStartPoints, layerThicknesses, accumulatedHeight, pcLayers>>

varsNotebook == <<profile, layers, layers_sorted, i, tau_nu, I_nu,
                  layer_contributions, photon_flux, pcNotebook>>

varsMfp == <<n0, ppm_CO2, sigma, n_CO2, meanFreePath, output, pcMfp>>

varsEscape == <<escapeMeanFreePath, distanceToEscape, reEmissionTime,
                numberOfSteps, totalTime, escapeOutput, pcEscape>>

varsParallel == <<deltaTaus, opticalDepths, emissions, radiance, pcParallel>>

vars == <<varsLayers, varsNotebook, varsMfp, varsEscape, varsParallel, previousRun>>

\* What the actions of one program leave alone.
varsNotLayers == <<varsNotebook, varsMfp, varsEscape, varsParallel, previousRun>>

varsNotNotebook == <<varsLayers, varsMfp, varsEscape, varsParallel, previousRun>>

varsNotMfp == <<varsLayers, varsNotebook, varsEscape, varsParallel, previousRun>>

varsNotEscape == <<varsLayers, varsNotebook, varsMfp, varsParallel, previousRun>>

\* The state of a program that is not run.
IdleLayers ==
    /\ initialThickness = Zero /\ H = Zero /\ maxAltitude = Zero
    /\ layerStartPoints = <<>> /\ layerThicknesses = <<>>
    /\ accumulatedHeight = Zero /\ pcLayers = "idle"

IdleNotebook ==
    /\ profile = <<>> /\ layers = <<>> /\ layers_sorted = <<>>
    /\ i = 0 /\ tau_nu = Zero /\ I_nu = Zero
    /\ layer_contributions = <<>> /\ photon_flux = Zero
    /\ pcNotebook = "idle"

IdleMfp ==
    /\ n0 = Zero /\ ppm_CO2 = Zero /\ sigma = Zero
    /\ n_CO2 = Zero /\ meanFreePath = Zero
    /\ output = <<>> /\ pcMfp = "idle"

IdleEscape ==
    /\ escapeMeanFreePath = Zero /\ distanceToEscape = Zero
    /\ reEmissionTime = Zero /\ numberOfSteps = Zero /\ totalTime = Zero
    /\ escapeOutput = <<>> /\ pcEscape = "idle"

IdleParallel ==
    /\ deltaTaus = <<>> /\ opticalDepths = <<>> /\ emissions = <<>>
    /\ radiance = Zero /\ pcParallel = "idle"

\* No earlier run, and nothing but the program at hand.
FirstRun == previousRun = <<>> /\ IdleEscape /\ IdleParallel

(***************************************************************************)
(* layers.js                                                               *)
(***************************************************************************)

\* Values the three constants of layers.js are drawn from (metres); the
\* shipped values are initialThickness = 100, H = 12000, maxAltitude = 12000.
ThicknessValues == {F(1, 2), F(1, 3), F(3, 3), F(12, 3), F(15, 3)}

ScaleHeights == {F(2, 3), F(12, 3)}

ColumnHeights == {F(3, 3), F(12, 3)}

NonPositive == {F(-1, 3), Zero}

\* A valid triple whose first layer is thin against the column: 4 m of 3 km.
ThinFirstLayer == {<<F(4, 0), F(12, 3), F(3, 3)>>}

\* Valid triples, and triples with exactly one non-positive constant.  Left
\* out, because they take the script to an IEEE infinity or NaN, which the
\* model's numbers do not hold: a scale height of 0 (h2 / 0), and a negative
\* initial thickness together with a negative scale height (Math.exp
\* overflows).
LayerInputs ==
    (ThicknessValues \X ScaleHeights \X ColumnHeights)
    \cup ThinFirstLayer
    \cup (NonPositive \X ScaleHeights \X ColumnHeights)
    \cup (ThicknessValues \X {F(-1, 3)} \X ColumnHeights)
    \cup (ThicknessValues \X ScaleHeights \X NonPositive)

\* return initialThickness * Math.exp(h2 / H)
calculateNextLayerThickness(h2, t0, Hs) == FMul(t0, FExp(FDiv(h2, Hs)))

MutantNextStart(starts, thicks) == FAdd(Last(starts), thicks[1])

\* let h2 = layerStartPoints[last] + layerThicknesses[last]
NextStart(starts, thicks) == FAdd(Last(starts), Last(thicks))

\* if (accumulatedHeight + nextThickness > maxAltitude)
\*     nextThickness = maxAltitude - accumulatedHeight
Clip(acc, next, maxAlt) ==
    IF FGt(FAdd(acc, next), maxAlt) THEN FSub(maxAlt, acc) ELSE next

InitLayers ==
    /\ \E in \in LayerInputs :
         /\ initialThickness = in[1]
         /\ H = in[2]
         /\ maxAltitude = in[3]
    /\ layerStartPoints = <<Zero>>
    /\ layerThicknesses = <<initialThickness>>
    /\ accumulatedHeight = initialThickness
    /\ pcLayers = "loop"
    /\ IdleNotebook
    /\ IdleMfp
    /\ FirstRun

\* One iteration of while (accumulatedHeight < maxAltitude) { ... }
LoopIteration ==
    /\ pcLayers = "loop"
    /\ FLt(accumulatedHeight, maxAltitude)
    /\ Len(layerThicknesses) < MaxLayers
    /\ LET h2 == NextStart(layerStartPoints, layerThicknesses)
           nextThickness ==
               Clip(accumulatedHeight,
                    calculateNextLayerThickness(h2, initialThickness, H),
                    maxAltitude)
       IN /\ layerStartPoints' = Append(layerStartPoints, h2)
          /\ layerThicknesses' = Append(layerThicknesses, nextThickness)
          /\ accumulatedHeight' = FAdd(accumulatedHeight, nextThickness)
    /\ UNCHANGED <<initialThickness, H, maxAltitude, pcLayers>>
    /\ UNCHANGED varsNotLayers

\* The loop condition fails: the script goes on to print the table.
LoopExit ==
    /\ pcLayers = "loop"
    /\ ~FLt(accumulatedHeight, maxAltitude)
    /\ pcLayers' = "done"
    /\ UNCHANGED <<initialThickness, H, maxAltitude,
                   layerStartPoints, layerThicknesses, accumulatedHeight>>
    /\ UNCHANGED varsNotLayers

NextLayers == LoopIteration \/ LoopExit

SpecLayers == InitLayers /\ [][NextLayers]_vars

ValidLayerInput == initialThickness.m > 0 /\ H.m > 0 /\ maxAltitude.m > 0

(***************************************************************************)
(* Claims about layers.js (checked under SpecLayers)                       *)
(***************************************************************************)

\* C1: for every valid input (t0 > 0, scale height > 0, H_total > 0), when the
\* build loop has finished, the accumulated height and the sum of all layer
\* thicknesses equal H_total exactly (the last layer is clipped, no overshoot).
C1_SumEqualsTotal ==
    (pcLayers = "done" /\ ValidLayerInput)
        => /\ accumulatedHeight = maxAltitude
           /\ FSum(layerThicknesses) = maxAltitude

\* C2: in every state of the build the stack is contiguous: layer 0 starts at
\* altitude 0, each next layer starts where the previous one ends, and the
\* start-point and thickness sequences have the same length.
C2_Contiguous ==
    /\ Len(layerStartPoints) = Len(layerThicknesses)
    /\ layerStartPoints[1] = Zero
    /\ \A n \in 1..(Len(layerStartPoints) - 1) :
         layerStartPoints[n + 1] = FAdd(layerStartPoints[n], layerThicknesses[n])

\* A finished build of at least three layers with growing thicknesses.
C2_Witness ==
    /\ pcLayers = "done"
    /\ Len(layerStartPoints) >= 3
    /\ FGt(layerThicknesses[2], layerThicknesses[1])

\* C3: whenever t0 >= H_total (valid input), the finished build has exactly one
\* layer and its thickness is H_total.
C3_SingleLayerOfTotal ==
    (pcLayers = "done" /\ ValidLayerInput /\ FGe(initialThickness, maxAltitude))
        => /\ Len(layerThicknesses) = 1
           /\ layerThicknesses[1] = maxAltitude

\* C8: if the initial thickness, the scale height or the total column height
\* is non-positive, the builder is in a ConfigurationError outcome and no
\* layer has been built.
C8_ConfigurationErrorFailsFast ==
    ~ValidLayerInput
        => /\ pcLayers = "ConfigurationError"
           /\ layerThicknesses = <<>>
           /\ layerStartPoints = <<>>

MaxRows == 2

\* Physical constants (SI), as the first cell sets them.
h == F(662607015, -42)

k_B == F(1380649, -29)

c == F(299792458, 0)

N_A == F(602214076, 15)

M_CO2 == F(4401, -5)

m_CO2 == FDiv(M_CO2, N_A)

wavelength == F(15, -6)

frequency == FDiv(c, wavelength)

energy_transition == FMul(h, frequency)

A21 == F(1, 0)

sigma_collision == F(3, -19)

Z == F(1, 0)

E_upper == energy_transition

sigma_nu == F(1, -22)

Pi == F(314159265, -8)

\* 100e3: the altitude the atmosphere is assumed to extend to.
TopOfAtmosphere == F(100, 3)

\* Values the columns of the table are drawn from.  The notebook's own table
\* has altitudes 0..20 km, temperatures 216.65..288.15 K, pressures
\* 5474..101325 Pa and a mixing ratio of 400e-6.
Altitudes == {Zero, F(50, 3), F(110, 3)}

Temperatures == {F(28815, -2), F(2000, 0)}

Pressures == {F(9, -4), F(101325, 0)}

MixingRatios == {Zero, F(1, 0)}

\* The rows a table may hold.  A row at sea-level pressure is cold, holds CO2
\* and lies below the assumed top of the atmosphere: hot (inverted) or above
\* the top, its optical depth increment is so negative that np.exp overflows
\* to an IEEE infinity, which the model's numbers do not hold.
ProfileRows ==
    { r \in [Altitude : Altitudes, Temperature : Temperatures,
             Pressure : Pressures, CO2_Mixing_Ratio : MixingRatios] :
        r.Pressure = F(101325, 0)
            => /\ r.Temperature = F(28815, -2)
               /\ r.CO2_Mixing_Ratio = FOne
               /\ FLe(r.Altitude, TopOfAtmosphere) }

Profiles == UNION { [1..n -> ProfileRows] : n \in 1..MaxRows }

\* layers['Number_Density'] = layers['Pressure'] / (k_B * layers['Temperature'])
NumberDensity(r) == FDiv(r.Pressure, FMul(k_B, r.Temperature))

\* layers['CO2_Number_Density'] = layers['Number_Density'] * layers['CO2_Mixing_Ratio']
CO2NumberDensity(r) == FMul(r.Number_Density, r.CO2_Mixing_Ratio)

\* np.exp(-E_upper / (k_B * layers['Temperature']))
BoltzmannFactor(r) == FExp(FDiv(FNeg(E_upper), FMul(k_B, r.Temperature)))

\* layers['CO2_Number_Density'] * layers['Boltzmann_Factor'] / Z
NUpper(r) == FDiv(FMul(r.CO2_Number_Density, r.Boltzmann_Factor), Z)

\* layers['CO2_Number_Density'] * (1 - layers['Boltzmann_Factor']) / Z
NLower(r) == FDiv(FMul(r.CO2_Number_Density, FSub(FOne, r.Boltzmann_Factor)), Z)

\* np.sqrt((8 * k_B * layers['Temperature']) / (np.pi * m_CO2))
AverageSpeed(r) ==
    FSqrt(FDiv(FMul(FMul(F(8, 0), k_B), r.Temperature), FMul(Pi, m_CO2)))

\* layers['Number_Density'] * sigma_collision * layers['Average_Speed']
CollisionalRate(r) == FMul(FMul(r.Number_Density, sigma_collision), r.Average_Speed)

\* layers['Collisional_Rate'] + layers['Radiative_Rate']
TotalDeexcitationRate(r) == FAdd(r.Collisional_Rate, r.Radiative_Rate)

\* layers['Radiative_Rate'] / layers['Total_Deexcitation_Rate']
PRadiative(r) == FDiv(r.Radiative_Rate, r.Total_Deexcitation_Rate)

\* The collisional rate taken relative to the radiative rate alone.
MutantPCollisional(r) == FDiv(r.Collisional_Rate, r.Radiative_Rate)

\* layers['Collisional_Rate'] / layers['Total_Deexcitation_Rate']
PCollisional(r) == FDiv(r.Collisional_Rate, r.Total_Deexcitation_Rate)

\* (layers['N_lower'] - layers['N_upper']) * sigma_nu
Kappa(r) == FMul(FSub(r.N_lower, r.N_upper), sigma_nu)

\* (2 * h * frequency**3) / c**2 / (np.exp(h * frequency / (k_B * T)) - 1)
Planck(T) ==
    FDiv(FDiv(FMul(FMul(F(2, 0), h), FMul(FMul(frequency, frequency), frequency)),
              FMul(c, c)),
         FSub(FExp(FDiv(FMul(h, frequency), FMul(k_B, T))), FOne))

\* layers['Kappa'] * layers['P_radiative'] * (2 * h * frequency**3) / c**2 / (np.exp(...) - 1)
EmissionCoefficient(r) ==
    FDiv(FDiv(FMul(FMul(r.Kappa, r.P_radiative),
                   FMul(FMul(F(2, 0), h), FMul(FMul(frequency, frequency), frequency))),
              FMul(c, c)),
         FSub(FExp(FDiv(FMul(h, frequency), FMul(k_B, r.Temperature))), FOne))

\* The row r with the columns of new added (or overwritten).
WithColumns(r, new) == new @@ r

\* The columns the second cell adds to a row of the table.
AtmosphereRow(r, n) ==
    LET r1 == WithColumns(r, [Layer |-> n])
        r2 == WithColumns(r1, [Number_Density |-> NumberDensity(r1)])
    IN WithColumns(r2, [CO2_Number_Density |-> CO2NumberDensity(r2)])

\* The third cell adds its columns one statement at a time; each operator
\* below is the row after one of them.
WithBoltzmannFactor(r) == WithColumns(r, [Boltzmann_Factor |-> BoltzmannFactor(r)])

WithPopulations(r) == WithColumns(r, [N_upper |-> NUpper(r), N_lower |-> NLower(r)])

WithAverageSpeed(r) == WithColumns(r, [Average_Speed |-> AverageSpeed(r)])

WithCollisionalRate(r) == WithColumns(r, [Collisional_Rate |-> CollisionalRate(r)])

WithRadiativeRate(r) == WithColumns(r, [Radiative_Rate |-> A21])

WithTotalRate(r) ==
    WithColumns(r, [Total_Deexcitation_Rate |-> TotalDeexcitationRate(r)])

WithProbabilities(r) ==
    WithColumns(r, [P_radiative |-> PRadiative(r), P_collisional |-> PCollisional(r)])

WithKappa(r) == WithColumns(r, [Kappa |-> Kappa(r)])

WithEmissionCoefficient(r) ==
    WithColumns(r, [Emission_Coefficient |-> EmissionCoefficient(r)])

\* The columns the third cell adds to a row, in the order the cell adds them.
PropertiesRow(r) ==
    WithEmissionCoefficient(WithKappa(WithProbabilities(WithTotalRate(
        WithRadiativeRate(WithCollisionalRate(WithAverageSpeed(
            WithPopulations(WithBoltzmannFactor(r)))))))))

RECURSIVE InsertDescending(_, _)
\* The sequence s, sorted by descending altitude, with row r inserted after
\* the rows at its altitude or above.
InsertDescending(s, r) ==
    IF s = <<>> THEN <<r>>
    ELSE IF FGe(Head(s).Altitude, r.Altitude)
         THEN <<Head(s)>> \o InsertDescending(Tail(s), r)
         ELSE <<r>> \o s

RECURSIVE SortDescending(_)
\* layers.sort_values(by='Altitude', ascending=False).reset_index(drop=True);
\* rows at equal altitudes keep their order, as pandas' argsort of so short a
\* column leaves them.
SortDescending(s) ==
    IF s = <<>> THEN <<>>
    ELSE InsertDescending(SortDescending(SubSeq(s, 1, Len(s) - 1)), s[Len(s)])

\* delta_z: down from the previous (higher) layer, or from the assumed top.
DeltaZ(sorted, n) ==
    IF n > 1 THEN FSub(sorted[n - 1].Altitude, sorted[n].Altitude)
    ELSE FSub(TopOfAtmosphere, sorted[n].Altitude)

\* ds = delta_z / np.cos(0)
PathLength(delta_z) == FDiv(delta_z, FOne)

\* delta_tau = layer['Kappa'] * ds
DeltaTau(layer, ds) == FMul(layer.Kappa, ds)

\* The optical depth left as it was: the increment is dropped.
MutantKeepTau(tau, delta_tau) == tau

\* The optical depth overwritten, not accumulated.
MutantAccumulateTau(tau, delta_tau) == delta_tau

\* tau_nu += delta_tau
AccumulateTau(tau, delta_tau) == FAdd(tau, delta_tau)

\* The contribution with the layer's transmission in place of its emissivity.
MutantDeltaRadiance(B_nu, delta_tau, tau, layer) ==
    FMul(FMul(FMul(B_nu, FExp(FNeg(delta_tau))), FExp(FNeg(tau))),
         layer.P_radiative)

\* The contribution attenuated by the optical depth above the layer only,
\* as if dI_nu were computed before tau_nu += delta_tau.
MutantStaleDeltaRadiance(B_nu, delta_tau, tau, layer) ==
    FMul(FMul(FMul(B_nu, FSub(FOne, FExp(FNeg(delta_tau)))),
              FExp(FNeg(FSub(tau, delta_tau)))),
         layer.P_radiative)

\* The contribution with the emissivity term reversed: exp(-delta_tau) - 1.
MutantReversedDeltaRadiance(B_nu, delta_tau, tau, layer) ==
    FMul(FMul(FMul(B_nu, FSub(FExp(FNeg(delta_tau)), FOne)), FExp(FNeg(tau))),
         layer.P_radiative)

\* dI_nu = B_nu * (1 - np.exp(-delta_tau)) * np.exp(-tau_nu); dI_nu *= layer['P_radiative']
DeltaRadiance(B_nu, delta_tau, tau, layer) ==
    FMul(FMul(FMul(B_nu, FSub(FOne, FExp(FNeg(delta_tau)))), FExp(FNeg(tau))),
         layer.P_radiative)

\* h * frequency, the energy of one photon of the transition.
PhotonEnergy == FMul(h, frequency)

\* The density with one photon's energy added to the radiance.
MutantPhotonFluxDensity(I_nu_up) ==
    FDiv(FAdd(I_nu_up, PhotonEnergy), PhotonEnergy)

\* photon_flux_density = I_nu_up / (h * frequency)
PhotonFluxDensity(I_nu_up) == FDiv(I_nu_up, PhotonEnergy)

\* photon_flux = photon_flux_density * delta_frequency * solid_angle
PhotonFlux(I_nu_up) ==
    LET delta_frequency == FMul(frequency, F(1, -2))
        solid_angle == FMul(F(2, 0), Pi)
    IN FMul(FMul(PhotonFluxDensity(I_nu_up), delta_frequency), solid_angle)

\* The state after the first cell (the constants).  The names later cells
\* assign are held as 0 or the empty sequence until then.
InitNotebook ==
    /\ profile \in Profiles
    /\ layers = <<>>
    /\ layers_sorted = <<>>
    /\ i = 0
    /\ tau_nu = Zero
    /\ I_nu = Zero
    /\ layer_contributions = <<>>
    /\ photon_flux = Zero
    /\ pcNotebook = "atmosphere"
    /\ IdleLayers
    /\ IdleMfp
    /\ FirstRun

\* Second cell: the table and its number densities.
CellAtmosphere ==
    /\ pcNotebook = "atmosphere"
    /\ layers' = [n \in 1..Len(profile) |-> AtmosphereRow(profile[n], n)]
    /\ pcNotebook' = "properties"
    /\ UNCHANGED <<profile, layers_sorted, i, tau_nu, I_nu, layer_contributions,
                   photon_flux>>
    /\ UNCHANGED varsNotNotebook

\* Third cell: populations, de-excitation probabilities, coefficients.
CellProperties ==
    /\ pcNotebook = "properties"
    /\ layers' = [n \in 1..Len(layers) |-> PropertiesRow(layers[n])]
    /\ pcNotebook' = "transfer"
    /\ UNCHANGED <<profile, layers_sorted, i, tau_nu, I_nu, layer_contributions,
                   photon_flux>>
    /\ UNCHANGED varsNotNotebook

\* The radiance the kernel holds from an earlier run of the cell.
MutantBoundaryRadiance == I_nu

\* I_nu = 0: no incoming radiation at the top of the atmosphere.
BoundaryRadiance == Zero

\* Fourth cell up to the loop: I_nu = 0, tau_nu = 0, layers_sorted, layer_contributions = [].
TransferInit ==
    /\ pcNotebook = "transfer"
    /\ I_nu' = BoundaryRadiance
    /\ tau_nu' = Zero
    /\ layers_sorted' = SortDescending(layers)
    /\ layer_contributions' = <<>>
    /\ i' = 0
    /\ pcNotebook' = "loop"
    /\ UNCHANGED <<profile, layers, photon_flux>>
    /\ UNCHANGED varsNotNotebook

\* One iteration of for i in range(len(layers_sorted)); the variable i of the
\* model counts the iterations done, so the row at hand is layers_sorted[i + 1].
TransferStep ==
    /\ pcNotebook = "loop"
    /\ i < Len(layers_sorted)
    /\ LET layer == layers_sorted[i + 1]
           delta_z == DeltaZ(layers_sorted, i + 1)
           ds == PathLength(delta_z)
           delta_tau == DeltaTau(layer, ds)
           tau == AccumulateTau(tau_nu, delta_tau)
           B_nu == Planck(layer.Temperature)
           dI_nu == DeltaRadiance(B_nu, delta_tau, tau, layer)
           I == FAdd(I_nu, dI_nu)
       IN /\ tau_nu' = tau
          /\ I_nu' = I
          /\ layer_contributions' =
                 Append(layer_contributions,
                        [Layer |-> layer.Layer, Altitude |-> layer.Altitude,
                         Delta_Tau |-> delta_tau, Tau_Nu |-> tau, B_Nu |-> B_nu,
                         dI_Nu |-> dI_nu, I_Nu |-> I])
    /\ i' = i + 1
    /\ UNCHANGED <<profile, layers, layers_sorted, photon_flux, pcNotebook>>
    /\ UNCHANGED varsNotNotebook

\* The loop is exhausted: contributions_df is displayed.
TransferDone ==
    /\ pcNotebook = "loop"
    /\ i = Len(layers_sorted)
    /\ pcNotebook' = "flux"
    /\ UNCHANGED <<profile, layers, layers_sorted, i, tau_nu, I_nu,
                   layer_contributions, photon_flux>>
    /\ UNCHANGED varsNotNotebook

\* Fifth cell: the photon flux.  A zero photon energy would make the division
\* fail (ZeroDivisionError for a Python number, nan or inf with a warning
\* for a numpy one): the cell then has no photon flux to report.
CellPhotonFlux ==
    /\ pcNotebook = "flux"
    /\ IF PhotonEnergy = Zero
       THEN /\ pcNotebook' = "DivisionByZero"
            /\ UNCHANGED photon_flux
       ELSE /\ photon_flux' = PhotonFlux(I_nu)
            /\ pcNotebook' = "done"
    /\ UNCHANGED <<profile, layers, layers_sorted, i, tau_nu, I_nu,
                   layer_contributions>>
    /\ UNCHANGED varsNotNotebook

NextNotebook ==
    \/ CellAtmosphere
    \/ CellProperties
    \/ TransferInit
    \/ TransferStep
    \/ TransferDone
    \/ CellPhotonFlux

Spec == InitNotebook /\ [][NextNotebook]_vars

(***************************************************************************)
(* Claims about the notebook (checked under Spec)                          *)
(***************************************************************************)

\* The optical depth recorded before the n-th record: 0 before the first.
PrevTau(n) == IF n = 1 THEN Zero ELSE layer_contributions[n - 1].Tau_Nu

\* The path length of the n-th layer of the sorted stack.
PathOf(n) == PathLength(DeltaZ(layers_sorted, n))

\* C4 (as stated): the optical depth recorded after each layer is >= the one
\* recorded after the previous layer, and >= 0 after the first, for every
\* stack.
C4_OpticalDepthNonDecreasing ==
    \A n \in 1..Len(layer_contributions) :
        FGe(layer_contributions[n].Tau_Nu, PrevTau(n))

\* C4 (amended): the optical depth recorded after a layer whose kappa and
\* path length are both non-negative is >= the one recorded after the
\* previous layer (>= 0 for the first layer); so it is non-decreasing on
\* every stack without population inversion whose rows have distinct
\* altitudes at or below the assumed 100 km top.
C4_NonDecreasingWhenPhysical ==
    \A n \in 1..Len(layer_contributions) :
        (FGe(layers_sorted[n].Kappa, Zero) /\ FGe(PathOf(n), Zero))
            => FGe(layer_contributions[n].Tau_Nu, PrevTau(n))

\* A finished integration of two absorbing layers below the top whose
\* optical depth grew at each layer.
C4_Witness ==
    /\ pcNotebook = "flux"
    /\ Len(layer_contributions) = 2
    /\ \A n \in 1..2 : FGt(layers_sorted[n].Kappa, Zero) /\ FGt(PathOf(n), Zero)
    /\ FGt(layer_contributions[1].Tau_Nu, Zero)
    /\ FGt(layer_contributions[2].Tau_Nu, layer_contributions[1].Tau_Nu)

KappaZeroEverywhere ==
    \A n \in 1..Len(layers_sorted) : layers_sorted[n].Kappa = Zero

\* C5: when kappa = 0 in every layer, the radiance is 0 in every trace
\* record and in the running total, from the zero boundary condition to the
\* end of the integration.
C5_ZeroKappaZeroRadiance ==
    (pcNotebook \in {"loop", "flux", "done"} /\ KappaZeroEverywhere)
        => /\ I_nu = Zero
           /\ \A n \in 1..Len(layer_contributions) :
                 /\ layer_contributions[n].dI_Nu = Zero
                 /\ layer_contributions[n].I_Nu = Zero

\* A finished integration of two CO2-free layers of different temperatures
\* and thicknesses, with a non-zero source function and pRadiative.
C5_Witness ==
    /\ pcNotebook = "flux"
    /\ KappaZeroEverywhere
    /\ Len(layer_contributions) = 2
    /\ layers_sorted[1].Temperature # layers_sorted[2].Temperature
    /\ PathOf(1) # PathOf(2)
    /\ \A n \in 1..2 : /\ FGt(layer_contributions[n].B_Nu, Zero)
                       /\ FGt(layers_sorted[n].P_radiative, Zero)

\* C6: when the emergent radiance is 0, the photon flux cell completes with a
\* photon flux of exactly 0 and without a division error.
C6_ZeroRadianceZeroFlux ==
    (pcNotebook \in {"done", "DivisionByZero"} /\ I_nu = Zero)
        => /\ pcNotebook = "done"
           /\ photon_flux = Zero

\* The flux cell has run on a radiance of 0 that an absorbing stack left:
\* the stack saturated before the boundary.
C6_Witness ==
    /\ pcNotebook = "done"
    /\ I_nu = Zero
    /\ \E n \in 1..Len(layers_sorted) : FGt(layers_sorted[n].Kappa, Zero)

PropertiesComputed == pcNotebook \notin {"idle", "atmosphere", "properties"}

PositiveRates(r) == FGt(r.Radiative_Rate, Zero) /\ FGt(r.Collisional_Rate, Zero)

InUnitInterval(p) == FGe(p, Zero) /\ FLe(p, FOne)

\* The spacing of the numbers just above 1 (2.2e-16 for IEEE doubles).
MachineEpsilon == F(1, 1 - Digits)

\* C7 (as stated): for every layer with positive rates, pRadiative and
\* pCollisional lie in [0,1] and their sum equals 1 exactly.
C7_ProbabilitiesSumToOneExactly ==
    PropertiesComputed =>
        \A n \in 1..Len(layers) :
            PositiveRates(layers[n])
                => /\ InUnitInterval(layers[n].P_radiative)
                   /\ InUnitInterval(layers[n].P_collisional)
                   /\ FAdd(layers[n].P_radiative, layers[n].P_collisional) = FOne

\* The absolute value of a number.
FAbs(a) == [m |-> Abs(a.m), e |-> a.e]

\* C7 (amended): for every layer with positive rates, pRadiative and
\* pCollisional lie in [0,1] and their sum differs from 1 by no more than
\* twice the machine epsilon of the arithmetic.
C7_ProbabilitiesSumToOneRounded ==
    PropertiesComputed =>
        \A n \in 1..Len(layers) :
            PositiveRates(layers[n])
                => /\ InUnitInterval(layers[n].P_radiative)
                   /\ InUnitInterval(layers[n].P_collisional)
                   /\ FLe(FAbs(FSub(FAdd(layers[n].P_radiative,
                                         layers[n].P_collisional), FOne)),
                          FMul(F(2, 0), MachineEpsilon))

\* The properties cell has run on a layer with positive rates whose two
\* probabilities lie strictly inside (0,1) and do not add up to 1.
C7_Witness ==
    /\ PropertiesComputed
    /\ \E n \in 1..Len(layers) :
          /\ PositiveRates(layers[n])
          /\ FGt(layers[n].P_radiative, Zero) /\ FLt(layers[n].P_radiative, FOne)
          /\ FGt(layers[n].P_collisional, Zero) /\ FLt(layers[n].P_collisional, FOne)
          /\ FAdd(layers[n].P_radiative, layers[n].P_collisional) # FOne

\* C9: every record of a layer whose kappa is <= 0 carries a
\* PhysicalInconsistency annotation.
C9_InconsistencyAnnotated ==
    \A n \in 1..Len(layer_contributions) :
        FLe(layers_sorted[n].Kappa, Zero)
            => "PhysicalInconsistency" \in DOMAIN layer_contributions[n]

\* C14: after the Layer Property Calculator and the Radiative Transfer
\* Integrator have run, the layer table the previous stage produced is
\* unchanged: same rows, same fields, same values, same order.
C14_LayerTableUnchanged ==
    PropertiesComputed
        => layers = [n \in 1..Len(profile) |-> AtmosphereRow(profile[n], n)]

\* C17: every layer the integrator has processed has a strictly positive
\* path length, the top layer (measured up to 100 km) included.
C17_PositivePathLength ==
    \A n \in 1..Len(layer_contributions) : FGt(PathOf(n), Zero)

\* The radiance recorded before the n-th record: 0 before the first.
PrevRadiance(n) == IF n = 1 THEN Zero ELSE layer_contributions[n - 1].I_Nu

\* The n-th trace record is what one step leaves for the n-th layer from the
\* top: deltaTau = kappa * pathLength is added to the optical depth first, and
\* deltaRadiance is computed with the optical depth so updated.
RecordFollowsStep(n) ==
    /\ layer_contributions[n].Layer = layers_sorted[n].Layer
    /\ layer_contributions[n].Delta_Tau = FMul(layers_sorted[n].Kappa, PathOf(n))
    /\ layer_contributions[n].Tau_Nu
           = FAdd(PrevTau(n), layer_contributions[n].Delta_Tau)
    /\ layer_contributions[n].B_Nu = Planck(layers_sorted[n].Temperature)
    /\ layer_contributions[n].dI_Nu
           = FMul(FMul(FMul(layer_contributions[n].B_Nu,
                            FSub(FOne, FExp(FNeg(layer_contributions[n].Delta_Tau)))),
                       FExp(FNeg(layer_contributions[n].Tau_Nu))),
                  layers_sorted[n].P_radiative)
    /\ layer_contributions[n].I_Nu
           = FAdd(PrevRadiance(n), layer_contributions[n].dI_Nu)

\* C15: from opticalDepth = 0 and radiance = 0 the integrator takes the
\* layers from the top down; each step adds deltaTau to the optical depth
\* before it computes deltaRadiance with the updated optical depth; one
\* record is appended per layer, each continuing the previous record, and
\* the terminal radiance is that of the last record.
C15_StepOrderAndTrace ==
    pcNotebook \in {"loop", "flux", "done"} =>
        /\ Len(layer_contributions) = i
        /\ pcNotebook # "loop" => i = Len(layers)
        /\ Len(layers_sorted) = Len(layers)
        /\ \A n \in 1..(Len(layers_sorted) - 1) :
               FGe(layers_sorted[n].Altitude, layers_sorted[n + 1].Altitude)
        /\ \A n \in 1..Len(layer_contributions) : RecordFollowsStep(n)
        /\ tau_nu = PrevTau(Len(layer_contributions) + 1)
        /\ I_nu = PrevRadiance(Len(layer_contributions) + 1)

\* A finished integration of two layers, both of which contribute, below an
\* optical depth other than 0.
C15_Witness ==
    /\ pcNotebook = "flux"
    /\ Len(layer_contributions) = 2
    /\ layer_contributions[1].Tau_Nu # Zero
    /\ layer_contributions[1].dI_Nu # Zero
    /\ layer_contributions[2].dI_Nu # Zero
    /\ I_nu = layer_contributions[2].I_Nu

\* Every layer of the stack has kappa >= 0, a path length >= 0, a Planck
\* radiance >= 0 and pRadiative in [0,1].
PhysicalStack ==
    \A n \in 1..Len(layers_sorted) :
        /\ FGe(layers_sorted[n].Kappa, Zero)
        /\ FGe(PathOf(n), Zero)
        /\ FGe(Planck(layers_sorted[n].Temperature), Zero)
        /\ InUnitInterval(layers_sorted[n].P_radiative)

\* C18: on a stack whose layers all have kappa >= 0, path length >= 0,
\* Planck radiance >= 0 and pRadiative in [0,1], every deltaRadiance is >= 0
\* and at most pRadiative times the Planck radiance of its layer, and the
\* radiance is non-negative and does not decrease from record to record.
C18_DeltaRadianceBounded ==
    (pcNotebook \in {"loop", "flux", "done"} /\ PhysicalStack) =>
        \A n \in 1..Len(layer_contributions) :
            /\ FGe(layer_contributions[n].dI_Nu, Zero)
            /\ FLe(layer_contributions[n].dI_Nu,
                   FMul(layers_sorted[n].P_radiative, layer_contributions[n].B_Nu))
            /\ FGe(layer_contributions[n].I_Nu, Zero)
            /\ FGe(layer_contributions[n].I_Nu, PrevRadiance(n))

\* A finished integration of a physical stack of two layers whose radiance
\* grew at each layer.
C18_Witness ==
    /\ pcNotebook = "flux"
    /\ PhysicalStack
    /\ Len(layer_contributions) = 2
    /\ FGt(layer_contributions[1].dI_Nu, Zero)
    /\ FGt(layer_contributions[2].I_Nu, layer_contributions[1].I_Nu)

(***************************************************************************)
(* unnamed/part_000: the mean-free-path script                             *)
(***************************************************************************)

\* Math.pow(10, k) for an integer k.
MathPow10(k) == F(1, k)

\* Values the three constants of the script are drawn from.  The script
\* ships n0 = 2.5e25, ppm_CO2 = 800, sigma = 1e-22; the notebook cell that does
\* the same computation has ppm_CO2 = 400.
AirDensities == {FMul(x, MathPow10(25)) : x \in {F(1, 0), F(25, -1), F(5, 0)}}

Concentrations == {F(280, 0), F(400, 0), F(420, 0), F(800, 0), F(1000, 0)}

CrossSections == {MathPow10(k) : k \in {0 - 23, 0 - 22, 0 - 21}}

\* The density with the concentration taken as a fraction, not as ppm.
MutantNumberDensityCO2(air, ppm) == FMul(air, ppm)

\* n_CO2 = n0 * (ppm_CO2 / Math.pow(10, 6))
NumberDensityCO2(air, ppm) == FMul(air, FDiv(ppm, MathPow10(6)))

\* meanFreePath = 1 / (n_CO2 * sigma)
MeanFreePath(n, xs) == FDiv(FOne, FMul(n, xs))

\* meanFreePath.toFixed(2) for a number >= 0, as the count of hundredths it
\* prints: the nearest one, the larger of two equally near.
ToFixed2(x) ==
    IF x.e + 2 >= 0 THEN x.m * Pow10(x.e + 2)
    ELSE LET d == Pow10(0 - (x.e + 2)) IN (2 * x.m + d) \div (2 * d)

InitMfp ==
    /\ n0 \in AirDensities
    /\ ppm_CO2 \in Concentrations
    /\ sigma \in CrossSections
    /\ n_CO2 = Zero
    /\ meanFreePath = Zero
    /\ output = <<>>
    /\ pcMfp = "n_CO2"
    /\ IdleLayers
    /\ IdleNotebook
    /\ FirstRun

\* const n_CO2 = n0 * (ppm_CO2 / Math.pow(10, 6));
ComputeNumberDensity ==
    /\ pcMfp = "n_CO2"
    /\ n_CO2' = NumberDensityCO2(n0, ppm_CO2)
    /\ pcMfp' = "meanFreePath"
    /\ UNCHANGED <<n0, ppm_CO2, sigma, meanFreePath, output>>
    /\ UNCHANGED varsNotMfp

\* const meanFreePath = 1 / (n_CO2 * sigma);
ComputeMeanFreePath ==
    /\ pcMfp = "meanFreePath"
    /\ meanFreePath' = MeanFreePath(n_CO2, sigma)
    /\ pcMfp' = "log"
    /\ UNCHANGED <<n0, ppm_CO2, sigma, n_CO2, output>>
    /\ UNCHANGED varsNotMfp

\* console.log(`... ${meanFreePath.toFixed(2)} meters`);
LogMeanFreePath ==
    /\ pcMfp = "log"
    /\ output' = Append(output, ToFixed2(meanFreePath))
    /\ pcMfp' = "done"
    /\ UNCHANGED <<n0, ppm_CO2, sigma, n_CO2, meanFreePath>>
    /\ UNCHANGED varsNotMfp

NextMfp == ComputeNumberDensity \/ ComputeMeanFreePath \/ LogMeanFreePath

SpecMfp == InitMfp /\ [][NextMfp]_vars

(***************************************************************************)
(* Claims about the mean-free-path script (checked under SpecMfp)          *)
(***************************************************************************)

\* The inputs of scenario A: n0 = 2.5e25, ppm = 400, sigma = 1e-22.
ScenarioA ==
    /\ n0 = FMul(F(25, -1), MathPow10(25))
    /\ ppm_CO2 = F(400, 0)
    /\ sigma = MathPow10(0 - 22)

\* C10: the script computes n_CO2 = n0 * ppm / 10^6 and meanFreePath =
\* 1 / (n_CO2 * sigma); on the inputs of scenario A, n_CO2 is 1.0e22, the mean
\* free path lies within 1% of 1.0 m and is reported as 1.00.
C10_MeanFreePathScenarioA ==
    /\ pcMfp \in {"meanFreePath", "log", "done"}
           => n_CO2 = FMul(n0, FDiv(ppm_CO2, F(1, 6)))
    /\ pcMfp \in {"log", "done"}
           => meanFreePath = FDiv(FOne, FMul(n_CO2, sigma))
    /\ (ScenarioA /\ pcMfp \in {"meanFreePath", "log", "done"})
           => n_CO2 = F(1, 22)
    /\ (ScenarioA /\ pcMfp \in {"log", "done"})
           => FGe(meanFreePath, F(99, -2)) /\ FLe(meanFreePath, F(101, -2))
    /\ (ScenarioA /\ pcMfp = "done") => output = <<100>>

\* The script has run to its end on the inputs of scenario A.
C10_Witness == ScenarioA /\ pcMfp = "done" /\ Len(output) = 1

(***************************************************************************)
(* timeToEscape.js: the random-walk escape time                            *)
(***************************************************************************)

\* Values the three constants of the script are drawn from.  The script
\* ships meanFreePath = 2, distanceToEscape = 100 and
\* reEmissionTime = 10 * Math.pow(10, -5).
StepLengths == {F(5, -1), F(1, 0), F(2, 0), F(4, 0), F(5, 0)}

EscapeDistances == {F(10, 0), F(100, 0), F(1000, 0)}

ReEmissionTimes == {FMul(x, MathPow10(0 - 5)) : x \in {F(1, 0), F(10, 0), F(100, 0)}}

\* The number of steps without the square.
MutantRandomWalkSteps(distance, step) == FDiv(distance, step)

\* numberOfSteps = Math.pow(distanceToEscape / meanFreePath, 2)
RandomWalkSteps(distance, step) == FMul(FDiv(distance, step), FDiv(distance, step))

\* totalTime = numberOfSteps * reEmissionTime
EscapeTime(steps, stepTime) == FMul(steps, stepTime)

InitEscape ==
    /\ escapeMeanFreePath \in StepLengths
    /\ distanceToEscape \in EscapeDistances
    /\ reEmissionTime \in ReEmissionTimes
    /\ numberOfSteps = Zero
    /\ totalTime = Zero
    /\ escapeOutput = <<>>
    /\ pcEscape = "numberOfSteps"
    /\ IdleLayers
    /\ IdleNotebook
    /\ IdleMfp
    /\ IdleParallel
    /\ previousRun = <<>>

\* const numberOfSteps = Math.pow(distanceToEscape / meanFreePath, 2);
ComputeNumberOfSteps ==
    /\ pcEscape = "numberOfSteps"
    /\ numberOfSteps' = RandomWalkSteps(distanceToEscape, escapeMeanFreePath)
    /\ pcEscape' = "totalTime"
    /\ UNCHANGED <<escapeMeanFreePath, distanceToEscape, reEmissionTime,
                   totalTime, escapeOutput>>
    /\ UNCHANGED varsNotEscape

\* const totalTime = numberOfSteps * reEmissionTime;
ComputeTotalTime ==
    /\ pcEscape = "totalTime"
    /\ totalTime' = EscapeTime(numberOfSteps, reEmissionTime)
    /\ pcEscape' = "log"
    /\ UNCHANGED <<escapeMeanFreePath, distanceToEscape, reEmissionTime,
                   numberOfSteps, escapeOutput>>
    /\ UNCHANGED varsNotEscape

\* console.log(`... ${totalTime.toFixed(2)} seconds`);
LogTotalTime ==
    /\ pcEscape = "log"
    /\ escapeOutput' = Append(escapeOutput, ToFixed2(totalTime))
    /\ pcEscape' = "done"
    /\ UNCHANGED <<escapeMeanFreePath, distanceToEscape, reEmissionTime,
                   numberOfSteps, totalTime>>
    /\ UNCHANGED varsNotEscape

NextEscape == ComputeNumberOfSteps \/ ComputeTotalTime \/ LogTotalTime

SpecEscape == InitEscape /\ [][NextEscape]_vars

(***************************************************************************)
(* Claims about timeToEscape.js (checked under SpecEscape)                 *)
(***************************************************************************)

\* The inputs of scenario B: meanFreePath = 2, distance = 100,
\* reEmissionTime = 1e-4.
ScenarioB ==
    /\ escapeMeanFreePath = F(2, 0)
    /\ distanceToEscape = F(100, 0)
    /\ reEmissionTime = F(1, -4)

\* C11: the script computes numberOfSteps = (distance / meanFreePath)^2 and
\* totalTime = numberOfSteps * reEmissionTime; on the inputs of scenario B,
\* numberOfSteps is 2500 and totalTime is 0.25 s, reported as 0.25.
C11_EscapeTimeScenarioB ==
    /\ pcEscape \in {"totalTime", "log", "done"}
           => numberOfSteps = FMul(FDiv(distanceToEscape, escapeMeanFreePath),
                                   FDiv(distanceToEscape, escapeMeanFreePath))
    /\ pcEscape \in {"log", "done"}
           => totalTime = FMul(numberOfSteps, reEmissionTime)
    /\ (ScenarioB /\ pcEscape \in {"totalTime", "log", "done"})
           => numberOfSteps = F(2500, 0)
    /\ (ScenarioB /\ pcEscape \in {"log", "done"}) => totalTime = F(25, -2)
    /\ (ScenarioB /\ pcEscape = "done") => escapeOutput = <<25>>

\* The script has run to its end on the inputs of scenario B.
C11_Witness == ScenarioB /\ pcEscape = "done" /\ Len(escapeOutput) = 1

(***************************************************************************)
(* Two runs of a program on the same inputs                                *)
(***************************************************************************)

\* What a finished run of layers.js has produced.
LayersResult ==
    [layerStartPoints |-> layerStartPoints,
     layerThicknesses |-> layerThicknesses,
     accumulatedHeight |-> accumulatedHeight]

\* What a finished run of the notebook has produced.
NotebookResult ==
    [layers |-> layers, layers_sorted |-> layers_sorted, tau_nu |-> tau_nu,
     I_nu |-> I_nu, layer_contributions |-> layer_contributions,
     photon_flux |-> photon_flux]

\* node layers.js once more: a new process, which starts again from the
\* constants; the results of the first run are kept for comparison.
RerunLayers ==
    /\ pcLayers = "done"
    /\ previousRun = <<>>
    /\ previousRun' = <<LayersResult>>
    /\ layerStartPoints' = <<Zero>>
    /\ layerThicknesses' = <<initialThickness>>
    /\ accumulatedHeight' = initialThickness
    /\ pcLayers' = "loop"
    /\ UNCHANGED <<initialThickness, H, maxAltitude>>
    /\ UNCHANGED <<varsNotebook, varsMfp, varsEscape, varsParallel>>

\* Run the cells of the notebook once more in the same kernel, which still
\* holds every name the first run assigned; the results of the first run
\* are kept for comparison.
RerunNotebook ==
    /\ pcNotebook = "done"
    /\ previousRun = <<>>
    /\ previousRun' = <<NotebookResult>>
    /\ pcNotebook' = "atmosphere"
    /\ UNCHANGED <<profile, layers, layers_sorted, i, tau_nu, I_nu,
                   layer_contributions, photon_flux>>
    /\ UNCHANGED <<varsLayers, varsMfp, varsEscape, varsParallel>>

InitTwoRuns == InitLayers \/ InitNotebook

NextTwoRuns == NextLayers \/ NextNotebook \/ RerunLayers \/ RerunNotebook

SpecTwoRuns == InitTwoRuns /\ [][NextTwoRuns]_vars

\* s is an initial part of t.
IsPrefix(s, t) == Len(s) <= Len(t) /\ s = SubSeq(t, 1, Len(s))

\* C12: a second run on the same inputs passes through the states of the
\* first: the layer stack grows through the same start points and
\* thicknesses, the trace through the same records, and the finished run has
\* the same stack, the same tables, optical depth, radiance, trace and flux.
C12_TwoRunsAgree ==
    previousRun # <<>> =>
        /\ pcLayers = "loop"
               => /\ IsPrefix(layerStartPoints, previousRun[1].layerStartPoints)
                  /\ IsPrefix(layerThicknesses, previousRun[1].layerThicknesses)
        /\ pcLayers = "done" => LayersResult = previousRun[1]
        /\ pcNotebook = "loop"
               => /\ layers = previousRun[1].layers
                  /\ layers_sorted = previousRun[1].layers_sorted
                  /\ IsPrefix(layer_contributions,
                              previousRun[1].layer_contributions)
        /\ pcNotebook = "done" => NotebookResult = previousRun[1]

\* A second run of the notebook has finished on a table of two layers that
\* leaves a radiance other than 0.
C12_Witness ==
    /\ previousRun # <<>>
    /\ pcNotebook = "done"
    /\ Len(layer_contributions) = 2
    /\ I_nu # Zero


(***************************************************************************)
(* The parallel reformulation of the transfer loop: all deltaTau first,    *)
(* then a prefix sum for opticalDepth, then the emissions of the layers in *)
(* any order.  It is run on the sorted table the notebook has integrated.  *)
(***************************************************************************)

\* Bound on the number of layers of a stack.
MaxStack == 3

\* The rows of the stacks: cold, thin air holding CO2 below the assumed top
\* of the atmosphere, so that no layer saturates the optical depth and every
\* layer of distinct altitude contributes.
StackAltitudes == {F(10, 3), F(30, 3), F(97, 3)}

StackRows ==
    [Altitude : StackAltitudes, Temperature : {F(28815, -2)},
     Pressure : {F(9, -4)}, CO2_Mixing_Ratio : {FOne}]

Stacks == UNION { [1..n -> StackRows] : n \in 1..MaxStack }

InitParallel ==
    /\ profile \in Stacks
    /\ layers = <<>>
    /\ layers_sorted = <<>>
    /\ i = 0
    /\ tau_nu = Zero
    /\ I_nu = Zero
    /\ layer_contributions = <<>>
    /\ photon_flux = Zero
    /\ pcNotebook = "atmosphere"
    /\ IdleLayers
    /\ IdleMfp
    /\ FirstRun

\* The sum of the first n entries, taken from the top.
RECURSIVE PrefixSum(_, _)
PrefixSum(values, n) ==
    IF n = 0 THEN Zero ELSE FAdd(PrefixSum(values, n - 1), values[n])

\* deltaRadiance = layerPlanckRadiance * (1 - exp(-deltaTau))
\*                     * exp(-opticalDepth) * pRadiative
Emission(n) ==
    FMul(FMul(FMul(Planck(layers_sorted[n].Temperature),
                   FSub(FOne, FExp(FNeg(deltaTaus[n])))),
              FExp(FNeg(opticalDepths[n]))),
         layers_sorted[n].P_radiative)

\* The layers whose emission is in.
Emitted == { emissions[k].Layer : k \in 1..Len(emissions) }

\* First phase: deltaTau = kappa * geometricPathLength of every layer.
ParallelDeltaTaus ==
    /\ pcNotebook = "done"
    /\ pcParallel = "idle"
    /\ deltaTaus' = [n \in 1..Len(layers_sorted) |->
                        FMul(layers_sorted[n].Kappa,
                             PathLength(DeltaZ(layers_sorted, n)))]
    /\ pcParallel' = "prefix"
    /\ UNCHANGED <<opticalDepths, emissions, radiance>>
    /\ UNCHANGED <<varsLayers, varsNotebook, varsMfp, varsEscape, previousRun>>

\* Second phase: the optical depth of every layer is a prefix sum.
ParallelPrefixSum ==
    /\ pcParallel = "prefix"
    /\ opticalDepths' = [n \in 1..Len(deltaTaus) |-> PrefixSum(deltaTaus, n)]
    /\ pcParallel' = "emit"
    /\ UNCHANGED <<deltaTaus, emissions, radiance>>
    /\ UNCHANGED <<varsLayers, varsNotebook, varsMfp, varsEscape, previousRun>>

\* Third phase: the emission of one layer not yet done, whichever finishes
\* next, is recorded and added to the radiance.
ParallelEmit ==
    /\ pcParallel = "emit"
    /\ \E n \in (1..Len(deltaTaus)) \ Emitted :
           /\ emissions' = Append(emissions,
                                  [Layer |-> n, deltaRadiance |-> Emission(n)])
           /\ radiance' = FAdd(radiance, Emission(n))
    /\ UNCHANGED <<deltaTaus, opticalDepths, pcParallel>>
    /\ UNCHANGED <<varsLayers, varsNotebook, varsMfp, varsEscape, previousRun>>

\* All emissions are in: the radiance is terminal.
ParallelJoin ==
    /\ pcParallel = "emit"
    /\ Emitted = 1..Len(deltaTaus)
    /\ pcParallel' = "done"
    /\ UNCHANGED <<deltaTaus, opticalDepths, emissions, radiance>>
    /\ UNCHANGED <<varsLayers, varsNotebook, varsMfp, varsEscape, previousRun>>

NextParallel ==
    \/ NextNotebook
    \/ ParallelDeltaTaus
    \/ ParallelPrefixSum
    \/ ParallelEmit
    \/ ParallelJoin

SpecParallel == InitParallel /\ [][NextParallel]_vars

\* Every layer has the optical depth and the deltaRadiance the sequential
\* loop recorded for it, in whatever order the emissions came in.
PerLayerAgreement ==
    /\ pcParallel \in {"emit", "done"} =>
           /\ Len(opticalDepths) = Len(layer_contributions)
           /\ \A n \in 1..Len(layer_contributions) :
                  opticalDepths[n] = layer_contributions[n].Tau_Nu
    /\ \A k \in 1..Len(emissions) :
           emissions[k].deltaRadiance
               = layer_contributions[emissions[k].Layer].dI_Nu

\* The emissions came in from the top layer down.
TopToBottom == \A k \in 1..Len(emissions) : emissions[k].Layer = k

====
